---- MODULE Spec2Model ----
(***************************************************************************)
(* Plane placement of yt_idv: yt_idv/scene_data/plane.py (BasePlane,       *)
(* PlaneData) and yt_idv/scene_components/planes.py (Plane).               *)
(*                                                                         *)
(* Numbers.  The program computes in IEEE double precision and stores the  *)
(* transform in single precision.  A number is modelled as an exact        *)
(* rational [n, d] in lowest terms (d > 0), or a non-finite value (d = 0:  *)
(* n = 0 is NaN, n = 1 / -1 is +inf / -inf).  Every finite value that the  *)
(* model feeds through the arithmetic of the transform is a dyadic         *)
(* rational of a few bits, on which double precision arithmetic is exact,  *)
(* so the rational result is the program's result.  astype("f4") is        *)
(* modelled by AsF4, which rounds to a 24 bit significand.                 *)
(***************************************************************************)
EXTENDS Integers, Sequences, FiniteSets, TLC

\* ------------------------------------------------------------------ bounds

\* the largest width / height a caller passes or assigns
MaxWidth == 2
\* add_data calls that reach vertex_array.attributes.append on one object
MaxAttrs == 2
\* trait assignments (data_source, normal, center, width, height, basis) made
\* by the caller on one object after its construction
MaxEdits == 1

\* ----------------------------------------------------------------- numbers
\* An operator that uses an operand more than once binds it first, as
\* x \in {x0}: the operand is then computed once, as the program computes it.

Abs(i) == IF i < 0 THEN -i ELSE i

Sign(i) == IF i < 0 THEN -1 ELSE IF i = 0 THEN 0 ELSE 1

RECURSIVE GCD(_, _)
GCD(a, b) == IF b = 0 THEN a ELSE GCD(b, a % b)

\* the rational n0/d0 (d0 # 0) in lowest terms with a positive denominator
Rat(n0, d0) ==
    CHOOSE r \in {[n |-> Sign(d) * (n \div g), d |-> Abs(d) \div g] :
                     g \in {GCD(Abs(n0), Abs(d0))}, n \in {n0}, d \in {d0}} : TRUE

Int2R(i) == [n |-> i, d |-> 1]

NaN == [n |-> 0, d |-> 0]

Inf(s) == [n |-> s, d |-> 0]

IsNaN(x) == x.d = 0 /\ x.n = 0

IsInf(x) == x.d = 0 /\ x.n # 0

IsFinite(x) == x.d # 0

\* IEEE ==: NaN equals nothing, not even itself
REq(x0, y0) == \E x \in {x0}, y \in {y0} : ~IsNaN(x) /\ ~IsNaN(y) /\ x = y

RNeg(x0) == CHOOSE r \in {[n |-> -x.n, d |-> x.d] : x \in {x0}} : TRUE

RAdd(x0, y0) ==
    CHOOSE r \in {
        IF IsNaN(x) \/ IsNaN(y) THEN NaN
        ELSE IF IsInf(x) /\ IsInf(y) THEN (IF x.n = y.n THEN x ELSE NaN)
        ELSE IF IsInf(x) THEN x
        ELSE IF IsInf(y) THEN y
        ELSE IF x.d = 1 /\ y.d = 1 THEN [n |-> x.n + y.n, d |-> 1]
        ELSE Rat(x.n * y.d + y.n * x.d, x.d * y.d) : x \in {x0}, y \in {y0}} : TRUE

RSub(x, y) == RAdd(x, RNeg(y))

RMul(x0, y0) ==
    CHOOSE r \in {
        IF IsNaN(x) \/ IsNaN(y) THEN NaN
        ELSE IF IsInf(x) \/ IsInf(y)
             THEN (IF x.n = 0 \/ y.n = 0 THEN NaN ELSE Inf(Sign(x.n) * Sign(y.n)))
        ELSE IF x.d = 1 /\ y.d = 1 THEN [n |-> x.n * y.n, d |-> 1]
        ELSE Rat(x.n * y.n, x.d * y.d) : x \in {x0}, y \in {y0}} : TRUE

\* numpy true division: x/0 is a warning, not an exception (0/0 = nan)
RDiv(x0, y0) ==
    CHOOSE r \in {
        IF IsNaN(x) \/ IsNaN(y) THEN NaN
        ELSE IF IsInf(y) THEN (IF IsInf(x) THEN NaN ELSE Int2R(0))
        ELSE IF y.n = 0
             THEN (IF x.n = 0 THEN NaN ELSE Inf(Sign(x.n)))
        ELSE IF IsInf(x) THEN Inf(Sign(x.n) * Sign(y.n))
        ELSE Rat(x.n * y.d, x.d * y.n) : x \in {x0}, y \in {y0}} : TRUE

ISqrt(i) == CHOOSE k \in 0..i : k * k = i

\* the square root of a rational square (the callers' vectors have rational
\* norms; an irrational root has no value here)
RSqrt(x0) ==
    CHOOSE r \in {
        IF IsNaN(x) THEN NaN
        ELSE IF IsInf(x) THEN (IF x.n > 0 THEN x ELSE NaN)
        ELSE Rat(ISqrt(x.n), ISqrt(x.d)) : x \in {x0}} : TRUE

\* the bits of a single precision significand
F4Bits == 24

\* q = round-half-to-even of n/d  (n >= 0, d > 0)
RoundHalfEven(n, d) ==
    CHOOSE q \in {IF 2 * (n % d) > d \/ (2 * (n % d) = d /\ (n \div d) % 2 = 1)
                  THEN (n \div d) + 1 ELSE n \div d} : TRUE

\* n/d > 0 rounded to F4Bits significant bits: scaled by a power of two until
\* the quotient has F4Bits bits (k counts up for small values, j for large)
RECURSIVE F4Up(_, _, _)
F4Up(n, d, k) ==
    IF n >= 2^(F4Bits - 1) * d
    THEN Rat(RoundHalfEven(n, d), 2^k)
    ELSE F4Up(2 * n, d, k + 1)

RECURSIVE F4Down(_, _, _)
F4Down(n, d, j) ==
    IF n < 2^F4Bits * d
    THEN Int2R(RoundHalfEven(n, d) * 2^j)
    ELSE F4Down(n, 2 * d, j + 1)

\* astype("f4") of one entry (exponent range not modelled): a value with at
\* most F4Bits significant bits is kept, any other is rounded to the nearest
AsF4(x0) ==
    CHOOSE r \in {
        IF ~IsFinite(x) \/ x.n = 0 THEN x
        ELSE IF 2^F4Bits % x.d = 0 /\ Abs(x.n) < 2^F4Bits THEN x
        ELSE IF Abs(x.n) >= 2^F4Bits * x.d
             THEN RMul(Int2R(Sign(x.n)), F4Down(Abs(x.n), x.d, 0))
             ELSE RMul(Int2R(Sign(x.n)), F4Up(Abs(x.n), x.d, 0)) : x \in {x0}} : TRUE

\* ------------------------------------------------------ vectors, matrices

Zero == Int2R(0)

One == Int2R(1)

Half == Rat(1, 2)

Vec(a, b, c) == <<Int2R(a), Int2R(b), Int2R(c)>>

\* the 3-vector with entries F(1), F(2), F(3)
V3(F(_)) == <<F(1), F(2), F(3)>>

\* the 4-vector and the 4x4 array with entries F(i), F(i, j)
V4(F(_)) == <<F(1), F(2), F(3), F(4)>>

M4(F(_, _)) ==
    << <<F(1, 1), F(1, 2), F(1, 3), F(1, 4)>>,
       <<F(2, 1), F(2, 2), F(2, 3), F(2, 4)>>,
       <<F(3, 1), F(3, 2), F(3, 3), F(3, 4)>>,
       <<F(4, 1), F(4, 2), F(4, 3), F(4, 4)>> >>

\* np.zeros((3,)) with entry `axis` (0-based) set to x
AxisVec(axis, x) ==
    CHOOSE r \in {LET E(i) == IF i = a + 1 THEN y ELSE Zero IN V3(E) :
                     a \in {axis}, y \in {x}} : TRUE

VAdd(u0, v0) ==
    CHOOSE r \in {LET E(i) == RAdd(u[i], v[i]) IN V3(E) :
                     u \in {u0}, v \in {v0}} : TRUE

VSub(u0, v0) ==
    CHOOSE r \in {LET E(i) == RSub(u[i], v[i]) IN V3(E) :
                     u \in {u0}, v \in {v0}} : TRUE

VScale(s0, v0) ==
    CHOOSE r \in {LET E(i) == RMul(s, v[i]) IN V3(E) :
                     s \in {s0}, v \in {v0}} : TRUE

VDiv(v0, s0) ==
    CHOOSE r \in {LET E(i) == RDiv(v[i], s) IN V3(E) :
                     s \in {s0}, v \in {v0}} : TRUE

Dot(u0, v0) ==
    CHOOSE r \in {RAdd(RAdd(RMul(u[1], v[1]), RMul(u[2], v[2])), RMul(u[3], v[3])) :
                     u \in {u0}, v \in {v0}} : TRUE

\* np.linalg.norm of a 3-vector
Norm(v) == RSqrt(Dot(v, v))

\* np.cross
Cross(u0, v0) ==
    CHOOSE r \in {<< RSub(RMul(u[2], v[3]), RMul(u[3], v[2])),
                     RSub(RMul(u[3], v[1]), RMul(u[1], v[3])),
                     RSub(RMul(u[1], v[2]), RMul(u[2], v[1])) >> :
                     u \in {u0}, v \in {v0}} : TRUE

\* np.eye(4)
Eye4 == LET E(i, j) == IF i = j THEN One ELSE Zero IN M4(E)

\* np.matmul of two 4x4 matrices
MatMul(A0, B0) ==
    CHOOSE r \in {
        LET E(i, j) ==
                RAdd(RAdd(RAdd(RMul(A[i][1], B[1][j]), RMul(A[i][2], B[2][j])),
                          RMul(A[i][3], B[3][j])),
                     RMul(A[i][4], B[4][j]))
        IN  M4(E) : A \in {A0}, B \in {B0}} : TRUE

\* np.matmul of a 4x4 matrix and a 4-vector
MatVec(A0, p0) ==
    CHOOSE r \in {
        LET E(i) ==
                RAdd(RAdd(RAdd(RMul(A[i][1], p[1]), RMul(A[i][2], p[2])),
                          RMul(A[i][3], p[3])),
                     RMul(A[i][4], p[4]))
        IN  V4(E) : A \in {A0}, p \in {p0}} : TRUE

\* M with M[0:3, col] = v   (col is 0-based, as in the source)
SetColumn(M0, col, v0) ==
    CHOOSE r \in {
        LET E(i, j) == IF j = col + 1 /\ i <= 3 THEN v[i] ELSE M[i][j]
        IN  M4(E) : M \in {M0}, v \in {v0}} : TRUE

\* M.astype("f4")
MatAsF4(M0) ==
    CHOOSE r \in {LET E(i, j) == AsF4(M[i][j]) IN M4(E) : M \in {M0}} : TRUE

\* ---------------------------------------------------------- optional values

\* Python's None, and a value that is set
None == <<>>

Some(v) == <<v>>

IsSet(o) == o # None

Get(o) == o[1]

\* ------------------------------------------------------------- the objects

\* type(self.data_source): the three kinds add_data knows, a YTDataContainer
\* of another type that has to_frb ("Other"), and no data source
NoSource == "None"

\* a data source, as far as add_data reads it: axis and coord of a slice or a
\* projection; orienter.normal_vector, orienter.north_vector and center of a
\* cutting plane (fields a kind does not have hold zeros)
DataSource(kind, axis, coord, normal_vector, north_vector, center) ==
    [kind |-> kind, axis |-> axis, coord |-> coord,
     normal_vector |-> normal_vector, north_vector |-> north_vector,
     center |-> center]

\* data_source.to_frb(width, resolution=frb_dims)[field]: the image the
\* backend resamples from this source over this width
ToFrb(data_source, width) == [source |-> data_source, width |-> width]

\* the class attributes and trait defaults of a new BasePlane / PlaneData
NewPlane(cls, data_source) ==
    [cls |-> cls,
     data_source |-> data_source,
     east_vec |-> None,
     north_vec |-> None,
     texture_object |-> None,
     texture_id |-> 0,
     size |-> -1,
     normal |-> None,
     center |-> None,
     data |-> None,
     width |-> Zero,
     height |-> Zero,
     to_worldview |-> None,
     attributes |-> <<>>,
     indices |-> None]

\* what a method call returns: the exception it raised ("none": it returned),
\* the object and the GL texture names as the call left them
Outcome(exc, self, gl) == [exc |-> exc, self |-> self, gl |-> gl]

NoExc == "none"

NotNormalToAxis == "ValueError: plane is not normal to an axis"

UnexpectedDataSource == "ValueError: unexpected data_source type"

\* ------------------------------------------------------ BasePlane._set_plane

\* the three axis tests of the basis selection, in source order
NormalAlongZ(unit_normal) == REq(unit_normal[1], Zero) /\ REq(unit_normal[2], Zero)

NormalAlongX(unit_normal) == REq(unit_normal[2], Zero) /\ REq(unit_normal[3], Zero)

NormalAlongY(unit_normal) == REq(unit_normal[1], Zero) /\ REq(unit_normal[3], Zero)

\* mutant: the tests for a normal along x and along y exchanged
ResolveBasisExchanged(unit_normal, east_vec, north_vec) ==
    IF east_vec = None \/ north_vec = None
    THEN IF NormalAlongZ(unit_normal)
         THEN [exc |-> NoExc, east_vec |-> Vec(1, 0, 0), north_vec |-> Vec(0, 1, 0)]
         ELSE IF NormalAlongY(unit_normal)
         THEN [exc |-> NoExc, east_vec |-> Vec(0, 1, 0), north_vec |-> Vec(0, 0, 1)]
         ELSE IF NormalAlongX(unit_normal)
         THEN [exc |-> NoExc, east_vec |-> Vec(1, 0, 0), north_vec |-> Vec(0, 0, 1)]
         ELSE [exc |-> NotNormalToAxis, east_vec |-> Vec(0, 0, 0),
               north_vec |-> Vec(0, 0, 0)]
    ELSE [exc |-> NoExc, east_vec |-> Get(east_vec), north_vec |-> Get(north_vec)]

\* the in-plane coordinate vectors: [exc, east_vec, north_vec]
ResolveBasis(unit_normal, east_vec, north_vec) ==
    IF east_vec = None \/ north_vec = None
    THEN IF NormalAlongZ(unit_normal)
         THEN [exc |-> NoExc, east_vec |-> Vec(1, 0, 0), north_vec |-> Vec(0, 1, 0)]
         ELSE IF NormalAlongX(unit_normal)
         THEN [exc |-> NoExc, east_vec |-> Vec(0, 1, 0), north_vec |-> Vec(0, 0, 1)]
         ELSE IF NormalAlongY(unit_normal)
         THEN [exc |-> NoExc, east_vec |-> Vec(1, 0, 0), north_vec |-> Vec(0, 0, 1)]
         ELSE [exc |-> NotNormalToAxis, east_vec |-> Vec(0, 0, 0),
               north_vec |-> Vec(0, 0, 0)]
    ELSE [exc |-> NoExc, east_vec |-> Get(east_vec), north_vec |-> Get(north_vec)]

\* mutant: scale[1, 1] = self.width
ScaleMatrixWidthOnly(width, height) ==
    CHOOSE r \in {
        LET E(i, j) == IF (i = 1 /\ j = 1) \/ (i = 2 /\ j = 2) THEN w
                       ELSE Eye4[i][j]
        IN  M4(E) : w \in {width}} : TRUE

\* homogenous scaling matrix from UV texture coords to in-plane coords
ScaleMatrix(width, height) ==
    CHOOSE r \in {
        LET E(i, j) == IF i = 1 /\ j = 1 THEN w
                       ELSE IF i = 2 /\ j = 2 THEN h
                       ELSE Eye4[i][j]
        IN  M4(E) : w \in {width}, h \in {height}} : TRUE

\* homogenous projection matrix from in-plane coords to world at origin
ToWorld(east_vec, north_vec, unit_normal) ==
    SetColumn(SetColumn(SetColumn(Eye4, 0, east_vec), 1, north_vec), 2, unit_normal)

\* mutant: translate[3, 0:3] = self.center (the row, not the column)
TranslateRow(center) ==
    CHOOSE r \in {
        LET E(i, j) == IF i = 4 /\ j <= 3 THEN c[j] ELSE Eye4[i][j]
        IN  M4(E) : c \in {center}} : TRUE

\* homogenous translation matrix
Translate(center) == SetColumn(Eye4, 3, center)

\* the texture coordinates of the centre of the quad
CenterTexCoords == <<Half, Half, Zero, One>>

\* mutant: extra_translate[0:3, 3] = true_center[0:3] - self.center
CuttingPlaneCorrectionReversed(to_worldview, center) ==
    CHOOSE r \in {
        LET extra_translate ==
                SetColumn(Eye4, 3, VSub(<<true_center[1], true_center[2],
                                          true_center[3]>>, center))
        IN  MatMul(extra_translate, to_worldview) :
            true_center \in {MatVec(to_worldview, CenterTexCoords)}} : TRUE

\* the extra translation of a cutting plane: from the point the centre texture
\* coordinates map to, to self.center
CuttingPlaneCorrection(to_worldview, center) ==
    CHOOSE r \in {
        LET extra_translate ==
                SetColumn(Eye4, 3, VSub(center, <<true_center[1], true_center[2],
                                                  true_center[3]>>))
        IN  MatMul(extra_translate, to_worldview) :
            true_center \in {MatVec(to_worldview, CenterTexCoords)}} : TRUE

\* combined homogenous projection matrix, before its cast to single precision
CombinedMatrix(kind, center, width, height, east_vec, north_vec, unit_normal) ==
    CHOOSE r \in {
        IF kind = "YTCuttingPlane"
        THEN CuttingPlaneCorrection(to_worldview, center)
        ELSE to_worldview :
            to_worldview \in {
                LET scale == ScaleMatrix(width, height)
                    to_world == ToWorld(east_vec, north_vec, unit_normal)
                    translate == Translate(center)
                IN  MatMul(translate, MatMul(to_world, scale))}} : TRUE

\* BasePlane._set_plane: [exc, self]
SetPlane(self) ==
    CHOOSE r \in {
        LET basis == ResolveBasis(unit_normal, self.east_vec, self.north_vec)
        IN  IF basis.exc # NoExc
            THEN [exc |-> basis.exc, self |-> self]
            ELSE [exc |-> NoExc,
                  self |-> [self EXCEPT !.to_worldview =
                      Some(MatAsF4(CombinedMatrix(self.data_source.kind,
                          Get(self.center), self.width, self.height,
                          basis.east_vec, basis.north_vec, unit_normal)))]] :
            unit_normal \in {VDiv(Get(self.normal), Norm(Get(self.normal)))}} : TRUE

\* ------------------------------------------------------- BasePlane.add_data

\* the in-plane coordinates of the four vertices, same as texture coordinates
Verts == << <<1, 0>>, <<0, 0>>, <<0, 1>>, <<1, 1>> >>

\* the two triangles, flattened to shape (i.size, 1)
Indices == <<0, 1, 2, 0, 2, 3>>

\* BasePlane.build_textures with gl texture names generated so far
BuildTextures(self, gl) ==
    LET tex_id == gl + 1
        texture == [texture_name |-> tex_id, data |-> Get(self.data),
                    boundary_x |-> "clamp", boundary_y |-> "clamp"]
    IN  Outcome(NoExc,
                [self EXCEPT !.texture_id = tex_id,
                             !.texture_object = Some(texture)],
                tex_id)

\* mutant: the vertex attribute is appended before _set_plane is called
BasePlaneAddDataAppendFirst(self, gl) ==
    CHOOSE r \in {
        IF sp.exc # NoExc
        THEN Outcome(sp.exc, sp.self, gl)
        ELSE BuildTextures([sp.self EXCEPT !.indices = Some(Indices),
                                           !.size = Len(Indices)], gl) :
            sp \in {SetPlane([self EXCEPT
                        !.attributes = Append(@, [name |-> "model_vertex",
                                                  data |-> Verts])])}} : TRUE

\* BasePlane.add_data
BasePlaneAddData(self, gl) ==
    CHOOSE r \in {
        IF sp.exc # NoExc
        THEN Outcome(sp.exc, self, gl)
        ELSE BuildTextures(
                 [sp.self EXCEPT
                     !.attributes = Append(@, [name |-> "model_vertex",
                                               data |-> Verts]),
                     !.indices = Some(Indices),
                     !.size = Len(Indices)],
                 gl) : sp \in {SetPlane(self)}} : TRUE

\* -------------------------------------------------------- PlaneData.add_data

\* the normal add_data derives from a supported source
DerivedNormal(ds) ==
    IF ds.kind = "YTCuttingPlane"
    THEN VDiv(ds.normal_vector, Norm(ds.normal_vector))
    ELSE AxisVec(ds.axis, One)

\* the center add_data derives from a supported source, before translate
DerivedCenter(ds) ==
    IF ds.kind = "YTSlice" THEN AxisVec(ds.axis, ds.coord)
    ELSE IF ds.kind = "YTCuttingPlane" THEN ds.center
    ELSE AxisVec(ds.axis, One)

\* mutant: center -= translate * normal
MovedCenterBack(center, translate, normal) ==
    IF ~REq(translate, Zero)
    THEN VSub(center, VScale(translate, normal))
    ELSE center

\* if translate != 0: center += translate * normal
MovedCenter(center, translate, normal) ==
    IF ~REq(translate, Zero)
    THEN VAdd(center, VScale(translate, normal))
    ELSE center

\* the cutting plane branch: self.north_vec and self.east_vec
CuttingPlaneBasis(self, ds) ==
    CHOOSE r \in {
        [self EXCEPT !.north_vec = Some(north),
                     !.east_vec = Some(Cross(DerivedNormal(ds), north))] :
            north \in {VDiv(ds.north_vector, Norm(ds.north_vector))}} : TRUE

\* PlaneData.add_data(field, width, frb_dims, translate)
PlaneDataAddData(self, width, translate, gl) ==
    CHOOSE r \in {
        IF ds.kind \notin {"YTSlice", "YTCuttingPlane", "YTProj"}
        THEN Outcome(UnexpectedDataSource, s1, gl)
        ELSE BasePlaneAddData(
                 [(IF ds.kind = "YTCuttingPlane" THEN CuttingPlaneBasis(s1, ds)
                   ELSE s1) EXCEPT
                     !.center = Some(MovedCenter(DerivedCenter(ds), translate,
                                                 DerivedNormal(ds))),
                     !.normal = Some(DerivedNormal(ds)),
                     !.width = width,
                     !.height = width],
                 gl) :
            ds \in {self.data_source},
            s1 \in {[self EXCEPT !.data = Some(ToFrb(self.data_source, width))]}} : TRUE

\* ------------------------------------------------ the callers' inputs

Widths == {Int2R(w) : w \in 1..MaxWidth}

\* the coordinate a slice is taken at
Coords == {Half}

\* the translate argument of PlaneData.add_data
Translates == {Zero, Half}

Centers == {Vec(0, 0, 5), Vec(3, 3, 3)}

\* normals a caller gives a BasePlane: along an axis (of any length and sign),
\* zero, and not along an axis (with one and with no zero component)
Normals == {Vec(0, 0, 1), Vec(2, 0, 0), Vec(0, -1, 0), Vec(0, 0, 0),
            Vec(3, 4, 0), Vec(1, 2, 2)}

\* (east_vec, north_vec) pairs a caller assigns
Bases == {<<Vec(1, 0, 0), Vec(0, 1, 0)>>, <<Vec(0, 0, 1), Vec(1, 0, 0)>>}

NoDataSource == DataSource(NoSource, 0, Zero, Vec(0, 0, 0), Vec(0, 0, 0), Vec(0, 0, 0))

Slices ==
    {DataSource("YTSlice", a, c, Vec(0, 0, 0), Vec(0, 0, 0), Vec(0, 0, 0)) :
        a \in 0..2, c \in Coords}

Projections ==
    {DataSource("YTProj", a, Zero, Vec(0, 0, 0), Vec(0, 0, 0), Vec(0, 0, 0)) :
        a \in 0..2}

\* cutting planes: (normal, north, center); the orienter's vectors are never
\* zero; the last one has a north vector that is not orthogonal to the normal
CuttingPlanes ==
    {DataSource("YTCuttingPlane", 0, Zero, o[1], o[2], o[3]) :
        o \in {<<Vec(1, 0, 0), Vec(0, 0, 1), Vec(3, 3, 3)>>,
               <<Vec(0, 0, 2), Vec(0, 2, 0), Vec(0, 0, 5)>>,
               <<Vec(0, 1, 0), Vec(0, 1, 0), Vec(3, 3, 3)>>}}

\* a YTDataContainer that is none of the three and has to_frb
OtherSources ==
    {DataSource("Other", 0, Zero, Vec(0, 0, 0), Vec(0, 0, 0), Vec(0, 0, 0))}

Sources == Slices \cup Projections \cup CuttingPlanes \cup OtherSources

\* ------------------------------------------------------- the state machine

VARIABLES
    plane,      \* the BasePlane / PlaneData object (Plane.data)
    gl,         \* texture names glGenTextures has handed out
    uniforms,   \* the "to_worldview" uniform of the shader program
    last,       \* the last operation: its name, arguments and exception
    edits       \* trait assignments made by the caller so far

vars == <<plane, gl, uniforms, last, edits>>

Op(op, exc, width, translate) ==
    [op |-> op, exc |-> exc, width |-> width, translate |-> translate]

\* PlaneData(data_source=ds)
InitPlaneData ==
    \E ds \in Sources : plane = NewPlane("PlaneData", ds)

\* BasePlane(normal=, center=, data=, width=, height=)
InitBasePlane ==
    \E normal \in Normals, center \in Centers, width \in Widths, height \in Widths :
        plane = [NewPlane("BasePlane", NoDataSource) EXCEPT
                    !.normal = Some(normal),
                    !.center = Some(center),
                    !.data = Some(ToFrb(NoDataSource, width)),
                    !.width = width,
                    !.height = height]

Init ==
    /\ InitPlaneData \/ InitBasePlane
    /\ gl = 0
    /\ uniforms = None
    /\ last = Op("__init__", NoExc, Zero, Zero)
    /\ edits = 0

\* plane.add_data(field, width, translate=translate) on a PlaneData
PlaneData_add_data ==
    /\ plane.cls = "PlaneData"
    /\ Len(plane.attributes) < MaxAttrs
    /\ \E width \in Widths, translate \in Translates :
        \E r \in {PlaneDataAddData(plane, width, translate, gl)} :
            /\ plane' = r.self
            /\ gl' = r.gl
            /\ last' = Op("PlaneData.add_data", r.exc, width, translate)
    /\ UNCHANGED <<uniforms, edits>>

\* plane.add_data() on a BasePlane
BasePlane_add_data ==
    /\ plane.cls = "BasePlane"
    /\ Len(plane.attributes) < MaxAttrs
    /\ \E r \in {BasePlaneAddData(plane, gl)} :
           /\ plane' = r.self
           /\ gl' = r.gl
           /\ last' = Op("BasePlane.add_data", r.exc, Zero, Zero)
    /\ UNCHANGED <<uniforms, edits>>

Edited == /\ edits < MaxEdits
          /\ edits' = edits + 1
          /\ last' = Op("edit", NoExc, Zero, Zero)
          /\ UNCHANGED <<gl, uniforms>>

\* plane.data_source = ds
SetDataSource ==
    /\ \E ds \in Sources : plane' = [plane EXCEPT !.data_source = ds]
    /\ Edited

\* plane.normal = normal
SetNormal ==
    /\ plane.cls = "BasePlane"
    /\ \E normal \in Normals : plane' = [plane EXCEPT !.normal = Some(normal)]
    /\ Edited

\* plane.center = center
SetCenter ==
    /\ plane.cls = "BasePlane"
    /\ \E center \in Centers : plane' = [plane EXCEPT !.center = Some(center)]
    /\ Edited

\* plane.width = width
SetWidth ==
    /\ plane.cls = "BasePlane"
    /\ \E width \in Widths : plane' = [plane EXCEPT !.width = width]
    /\ Edited

\* plane.height = height
SetHeight ==
    /\ plane.cls = "BasePlane"
    /\ \E height \in Widths : plane' = [plane EXCEPT !.height = height]
    /\ Edited

\* plane.east_vec = east; plane.north_vec = north, as the ValueError of
\* _set_plane asks of the caller of a BasePlane
SetBasis ==
    /\ plane.cls = "BasePlane"
    /\ \E b \in Bases : plane' = [plane EXCEPT !.east_vec = Some(b[1]),
                                               !.north_vec = Some(b[2])]
    /\ Edited

\* Plane._set_uniforms: the to_worldview attribute exists once _set_plane ran
Plane_set_uniforms ==
    /\ IsSet(plane.to_worldview)
    /\ uniforms' = plane.to_worldview
    /\ UNCHANGED <<plane, gl, last, edits>>

\* Plane.draw: binds data.texture_object and draws data.size elements with the
\* uniforms of the program
Plane_draw ==
    /\ IsSet(plane.texture_object)
    /\ IsSet(uniforms)
    /\ UNCHANGED vars

Next ==
    \/ PlaneData_add_data
    \/ BasePlane_add_data
    \/ SetDataSource
    \/ SetNormal
    \/ SetCenter
    \/ SetWidth
    \/ SetHeight
    \/ SetBasis

\* the object alone: its construction, the caller's assignments, add_data
Spec == Init /\ [][Next]_vars

NextRender ==
    \/ Next
    \/ Plane_set_uniforms
    \/ Plane_draw

\* the object in a scene that is rendered
SpecRender == Init /\ [][NextRender]_vars

\* ------------------------------------------------------------- the claims

\* add_data has returned and the caller has assigned nothing since: the object
\* is as the call left it
Ran ==
    /\ last.op \in {"PlaneData.add_data", "BasePlane.add_data"}
    /\ last.exc = NoExc

Kind == plane.data_source.kind

NoBasis == plane.east_vec = None /\ plane.north_vec = None

HasBasis == IsSet(plane.east_vec) /\ IsSet(plane.north_vec)

\* the world point the stored transform maps texture point (u, v, 0, 1) to
Image(u, v) ==
    CHOOSE r \in {<<p[1], p[2], p[3]>> :
                     p \in {MatVec(Get(plane.to_worldview), <<u, v, Zero, One>>)}} : TRUE

\* the components of v that are not zero
Support(v) == {i \in 1..3 : v[i] # Zero}

\* along one coordinate axis: exactly two of the three components are zero
AxisAligned(v) == Cardinality(Support(v)) = 1

\* the documented basis of a normal along an axis: (east, north)
DocBasis(normal) ==
    IF Support(normal) = {3} THEN <<Vec(1, 0, 0), Vec(0, 1, 0)>>
    ELSE IF Support(normal) = {1} THEN <<Vec(0, 1, 0), Vec(0, 0, 1)>>
    ELSE <<Vec(1, 0, 0), Vec(0, 0, 1)>>

IsUnit(v) == Dot(v, v) = One

Orthonormal(e, n, u) ==
    /\ IsUnit(e) /\ IsUnit(n) /\ IsUnit(u)
    /\ Dot(e, n) = Zero /\ Dot(e, u) = Zero /\ Dot(n, u) = Zero

\* u is v scaled by a positive number
SameDirection(u, v) == Cross(u, v) = Vec(0, 0, 0) /\ Dot(u, v).n > 0

\* the corner and the middle of the quad, as the documented basis places them
AxisPlaneAntecedent ==
    /\ Ran
    /\ Kind \in {"YTSlice", "YTProj"}
    /\ NoBasis
    /\ AxisAligned(Get(plane.normal))

\* C1 as stated: for an AxisSlice or Projection plane (axis-aligned normal, no
\* explicit basis) the stored transform maps (0.5, 0.5, 0, 1) to center.
C1_CentroidIsCenter ==
    AxisPlaneAntecedent => Image(Half, Half) = Get(plane.center)

\* C1 amended: for an AxisSlice or Projection plane the stored transform maps
\* the corner (0, 0, 0, 1) to center and the middle (0.5, 0.5, 0, 1) to
\* center + (width/2) east + (height/2) north, east and north the documented
\* basis of the normal: center is a corner of the quad, not its middle.
C1_CenterIsCorner ==
    AxisPlaneAntecedent =>
        LET b == DocBasis(Get(plane.normal))
        IN  /\ Image(Zero, Zero) = Get(plane.center)
            /\ Image(Half, Half) =
                   VAdd(Get(plane.center),
                        VAdd(VScale(RMul(Half, plane.width), b[1]),
                             VScale(RMul(Half, plane.height), b[2])))

\* a slice of unequal width and height has been placed
C1_Witness ==
    /\ AxisPlaneAntecedent
    /\ Kind = "YTSlice"
    /\ plane.width # plane.height
    /\ Get(plane.center) # Vec(0, 0, 0)

\* the normal has a length that is not zero
ProperNormal == IsSet(plane.normal) /\ Support(Get(plane.normal)) # {}

\* the transform before the correction step: translate * to_world * scale
Uncorrected ==
    LET n == Get(plane.normal)
        b == ResolveBasis(VDiv(n, Norm(n)), plane.east_vec, plane.north_vec)
    IN  MatMul(Translate(Get(plane.center)),
               MatMul(ToWorld(b.east_vec, b.north_vec, VDiv(n, Norm(n))),
                      ScaleMatrix(plane.width, plane.height)))

UncorrectedCentroid ==
    LET p == MatVec(Uncorrected, CenterTexCoords) IN <<p[1], p[2], p[3]>>

\* C2: for a CuttingPlane plane the transform stored after the correction step
\* maps (0.5, 0.5, 0, 1) to exactly center, also where the uncorrected
\* transform maps that point elsewhere.
C2_CuttingPlaneCentered ==
    (Ran /\ Kind = "YTCuttingPlane" /\ ProperNormal) =>
        Image(Half, Half) = Get(plane.center)

\* a cutting plane with an explicit basis whose uncorrected transform maps the
\* middle of the texture away from center
C2_Witness ==
    /\ Ran /\ Kind = "YTCuttingPlane" /\ ProperNormal /\ HasBasis
    /\ UncorrectedCentroid # Get(plane.center)

\* what PlaneData.add_data makes of a new PlaneData of the last call's source,
\* width and translate
Fresh ==
    PlaneDataAddData(NewPlane("PlaneData", plane.data_source),
                     last.width, last.translate, 0).self

\* C3: after any sequence of PlaneData.add_data calls, the basis and the
\* transform of the last call are those of a freshly constructed plane given
\* the last call's source, width and offset.
C3_LastCallAlone ==
    (last.op = "PlaneData.add_data" /\ last.exc = NoExc) =>
        /\ plane.to_worldview = Fresh.to_worldview
        /\ plane.east_vec = Fresh.east_vec
        /\ plane.north_vec = Fresh.north_vec

\* the transform of the geometry the object holds now
CurrentTransform == SetPlane(plane).self.to_worldview

\* C4: after an edit of width, height, center or normal, the to_worldview that
\* Plane._set_uniforms hands to the shader is the transform of the edited
\* geometry.  (A BasePlane without a data source and without an explicit
\* basis: only its width, height, center and normal can have been edited.)
C4_UniformIsCurrent ==
    [][(/\ Plane_set_uniforms
        /\ plane.cls = "BasePlane" /\ Kind = NoSource /\ NoBasis
        /\ SetPlane(plane).exc = NoExc)
       => uniforms' = CurrentTransform]_vars

DegenerateNormal == "DegenerateNormalError"

\* C5: whenever the norm of normal is zero, building the transform fails with
\* the degenerate-normal error, with and without an explicit basis, and no
\* transform is stored.
C5_ZeroNormalFails ==
    (/\ last.op \in {"PlaneData.add_data", "BasePlane.add_data"}
     /\ IsSet(plane.normal)
     /\ Support(Get(plane.normal)) = {})
    => (last.exc = DegenerateNormal /\ plane.to_worldview = None)

\* C6: PlaneData.add_data with a source that is none of slice, cutting plane or
\* projection fails and changes no field of the plane.
C6_FailedCallChangesNothing ==
    [][(last'.op = "PlaneData.add_data" /\ last'.exc = UnexpectedDataSource)
       => plane' = plane]_vars

\* fewer than two zero components
NotAlongAxis(v) == Cardinality(Support(v)) > 1

\* C7: for a normal with fewer than two zero components and east_vec or
\* north_vec unset, BasePlane.add_data fails with the not-normal-to-an-axis
\* error and leaves to_worldview, the vertex array attributes and indices,
\* size and the texture as they were.
C7_NotAlongAxisFails ==
    [][(/\ last'.op = "BasePlane.add_data"
        /\ BasePlane_add_data
        /\ NotAlongAxis(Get(plane.normal))
        /\ (plane.east_vec = None \/ plane.north_vec = None))
       => /\ last'.exc = NotNormalToAxis
          /\ plane'.to_worldview = plane.to_worldview
          /\ plane'.attributes = plane.attributes
          /\ plane'.indices = plane.indices
          /\ plane'.size = plane.size
          /\ plane'.texture_id = plane.texture_id
          /\ plane'.texture_object = plane.texture_object
          /\ gl' = gl]_vars

\* add_data failed on a normal off the axes, on an object that an earlier
\* add_data had filled
C7_Witness ==
    /\ last.op = "BasePlane.add_data"
    /\ last.exc = NotNormalToAxis
    /\ NotAlongAxis(Get(plane.normal))
    /\ IsSet(plane.to_worldview)
    /\ Len(plane.attributes) > 0

B2N(b) == IF b THEN 1 ELSE 0

\* C8: for a normal along x, y or z with no explicit basis, exactly one branch
\* of the basis selection applies, it selects the documented pair, east, north
\* and the unit normal are mutually orthogonal unit vectors, and the transform
\* add_data stores has width east and height north as its first two columns.
C8_DocumentedBasis ==
    (IsSet(plane.normal) /\ AxisAligned(Get(plane.normal)) /\ NoBasis) =>
        LET u == VDiv(Get(plane.normal), Norm(Get(plane.normal)))
            b == ResolveBasis(u, plane.east_vec, plane.north_vec)
            d == DocBasis(Get(plane.normal))
        IN  /\ B2N(NormalAlongZ(u)) + B2N(NormalAlongX(u)) + B2N(NormalAlongY(u)) = 1
            /\ b.exc = NoExc
            /\ b.east_vec = d[1]
            /\ b.north_vec = d[2]
            /\ Orthonormal(b.east_vec, b.north_vec, u)
            /\ Ran =>
                /\ VSub(Image(One, Zero), Image(Zero, Zero)) = VScale(plane.width, d[1])
                /\ VSub(Image(Zero, One), Image(Zero, Zero)) = VScale(plane.height, d[2])

\* add_data has placed a plane whose normal is along an axis, not of length
\* one, with the default basis
C8_Witness ==
    /\ Ran /\ NoBasis
    /\ AxisAligned(Get(plane.normal))
    /\ ~IsUnit(Get(plane.normal))

\* the transform of this plane with another width and height
Resized(w, h) ==
    Get(SetPlane([plane EXCEPT !.width = w, !.height = h]).self.to_worldview)

Centroid(T) == LET p == MatVec(T, CenterTexCoords) IN <<p[1], p[2], p[3]>>

Edge(T, u, v) ==
    LET p == MatVec(T, <<u, v, Zero, One>>)
        o == MatVec(T, <<Zero, Zero, Zero, One>>)
    IN  VSub(<<p[1], p[2], p[3]>>, <<o[1], o[2], o[3]>>)

\* C9: CuttingPlane planes that differ only in width and height have the same
\* image of (0.5, 0.5, 0, 1), and the edges of the mapped quad are width east
\* and height north.
C9_ResizeKeepsCenter ==
    (Ran /\ Kind = "YTCuttingPlane" /\ HasBasis /\ ProperNormal) =>
        \A w \in Widths, h \in Widths :
            /\ Centroid(Resized(w, h)) = Image(Half, Half)
            /\ Edge(Resized(w, h), One, Zero) = VScale(w, Get(plane.east_vec))
            /\ Edge(Resized(w, h), Zero, One) = VScale(h, Get(plane.north_vec))

\* a cutting plane with an east vector has been placed, and there is another
\* width to compare it with
C9_Witness ==
    /\ Ran /\ Kind = "YTCuttingPlane" /\ HasBasis /\ ProperNormal
    /\ Get(plane.east_vec) # Vec(0, 0, 0)
    /\ \E w \in Widths : w # plane.width

\* the unit vector along axis a (0-based)
UnitVector(a) == <<IF a = 0 THEN One ELSE Zero, IF a = 1 THEN One ELSE Zero,
                   IF a = 2 THEN One ELSE Zero>>

\* C10: the spec PlaneData.add_data derives is the documented one: a slice on
\* axis a at c gives normal e_a and center c e_a, a projection on a gives
\* normal e_a and center e_a, a cutting plane gives its normal and north
\* normalized, east = normal x north (an orthonormal triple when the source's
\* normal and north are orthogonal) and the source's center; center is then
\* moved by translate * normal, and width = height = the requested width.
C10_DerivedSpec ==
    (last.op = "PlaneData.add_data" /\ last.exc = NoExc) =>
        LET ds == plane.data_source
            normal == Get(plane.normal)
            center == Get(plane.center)
            shift == VScale(last.translate, normal)
        IN  /\ plane.width = last.width
            /\ plane.height = last.width
            /\ last.translate = Zero => shift = Vec(0, 0, 0)
            /\ ds.kind = "YTSlice" =>
                /\ normal = UnitVector(ds.axis)
                /\ center = VAdd(VScale(ds.coord, UnitVector(ds.axis)), shift)
            /\ ds.kind = "YTProj" =>
                /\ normal = UnitVector(ds.axis)
                /\ center = VAdd(UnitVector(ds.axis), shift)
            /\ ds.kind = "YTCuttingPlane" =>
                /\ IsUnit(normal) /\ SameDirection(normal, ds.normal_vector)
                /\ IsUnit(Get(plane.north_vec))
                /\ SameDirection(Get(plane.north_vec), ds.north_vector)
                /\ Get(plane.east_vec) = Cross(normal, Get(plane.north_vec))
                /\ Dot(ds.normal_vector, ds.north_vector) = Zero =>
                       Orthonormal(Get(plane.east_vec), Get(plane.north_vec), normal)
                /\ center = VAdd(ds.center, shift)

\* add_data has derived the spec of a cutting plane whose normal is not of
\* length one, with a translate that is not zero
C10_Witness ==
    /\ last.op = "PlaneData.add_data" /\ last.exc = NoExc
    /\ Kind = "YTCuttingPlane"
    /\ ~IsUnit(plane.data_source.normal_vector)
    /\ last.translate # Zero

====
